---- MODULE Spec2Model ----
(***************************************************************************)
(* pyvizio/_api/apps.py: the SmartCast app catalog (APP_HOME, APPS), the   *)
(* AppConfig value type, the two launch command constructors and the two   *)
(* "current app" response interpreters.                                    *)
(*                                                                         *)
(* A Python str that the code lower()s (app names, JSON keys, keyword      *)
(* names) is a sequence of one-character strings, so that lower() is       *)
(* computed character by character.  A Python dict with str keys is a      *)
(* function whose domain is a set of such sequences; the app definitions   *)
(* themselves are records.  Other Python values are tagged records.        *)
(***************************************************************************)
EXTENDS Integers, Sequences, FiniteSets, TLC

VARIABLES
    APP_HOME,   \* module table APP_HOME (a Python list, mutable in principle)
    APPS,       \* module table APPS
    call,       \* the operation the caller has just made, with its arguments
    result,     \* what that operation returned or raised
    memo,       \* history: one earlier (call, result) pair, kept for comparison
    heap        \* AppConfig objects the caller holds, by identity (address)

vars == <<APP_HOME, APPS, call, result, memo, heap>>

----------------------------------------------------------------------------
\* Bounds of the model.

\* Case permutations of a name: the case of at most MaxFlips characters is
\* flipped (the all-lower and all-upper spellings are always included).
MaxFlips == 1

\* NAME_SPACE values a caller or a device supplies: 0 .. MaxNameSpace.
MaxNameSpace == 5

\* AppConfig objects alive at once when equality is exercised.
MaxObjs == 3

----------------------------------------------------------------------------
\* Python values.

None == [type |-> "NoneType"]

PyStr(s) == [type |-> "str", s |-> s]

PyInt(i) == [type |-> "int", i |-> i]

PyDict(d) == [type |-> "dict", d |-> d]

\* dict(): the empty dict, as a function with an empty domain.
EmptyDict == <<>>

\* bool(v) as the `if current_app_id:` test of process_response uses it.
Truthy(v) ==
    CASE v.type = "NoneType" -> FALSE
      [] v.type = "str"      -> v.s # ""
      [] v.type = "int"      -> v.i # 0
      [] v.type = "dict"     -> DOMAIN v.d # {}

\* What a call produces: a returned value or a raised exception.
Return(v) == [kind |-> "return", value |-> v]

Raise(e) == [kind |-> "raise", exc |-> e]

----------------------------------------------------------------------------
\* str.lower(), on ASCII text.

UpperCase ==
    <<"A", "B", "C", "D", "E", "F", "G", "H", "I", "J", "K", "L", "M",
      "N", "O", "P", "Q", "R", "S", "T", "U", "V", "W", "X", "Y", "Z">>

LowerCase ==
    <<"a", "b", "c", "d", "e", "f", "g", "h", "i", "j", "k", "l", "m",
      "n", "o", "p", "q", "r", "s", "t", "u", "v", "w", "x", "y", "z">>

Index(table, c) == CHOOSE i \in DOMAIN table : table[i] = c

IsIn(table, c) == \E i \in DOMAIN table : table[i] = c

lower_char(c) == IF IsIn(UpperCase, c) THEN LowerCase[Index(UpperCase, c)] ELSE c

upper_char(c) == IF IsIn(LowerCase, c) THEN UpperCase[Index(LowerCase, c)] ELSE c

lower(s) == [i \in DOMAIN s |-> lower_char(s[i])]

upper(s) == [i \in DOMAIN s |-> upper_char(s[i])]

----------------------------------------------------------------------------
\* Keyword and key names.

K_APP_ID == <<"A", "P", "P", "_", "I", "D">>

K_NAME_SPACE == <<"N", "A", "M", "E", "_", "S", "P", "A", "C", "E">>

K_MESSAGE == <<"M", "E", "S", "S", "A", "G", "E">>

\* ResponseKey.ITEM and ResponseKey.VALUE of pyvizio._api._protocol.
ITEM == <<"I", "T", "E", "M">>

VALUE == <<"V", "A", "L", "U", "E">>

\* The sentinels of pyvizio.const.
NO_APP_RUNNING ==
    <<"_", "N", "O", "_", "A", "P", "P", "_", "R", "U", "N", "N", "I", "N", "G">>

UNKNOWN_APP == <<"_", "U", "N", "K", "N", "O", "W", "N", "_", "A", "P", "P">>

\* ENDPOINT of pyvizio._api._protocol: per device type, the endpoints it has.
\* The speaker has no "LAUNCH_APP" endpoint.
ENDPOINT ==
    [ tv      |-> [LAUNCH_APP |-> "/app/launch", CURRENT_APP |-> "/app/current"],
      speaker |-> [CURRENT_INPUT |-> "/menu_native/dynamic/audio_settings/input/current_input"] ]

\* The literal {"NAME_SPACE": ns, "APP_ID": id, "MESSAGE": msg} of a catalog entry.
Config(ns, id, msg) == (K_NAME_SPACE :> ns) @@ (K_APP_ID :> id) @@ (K_MESSAGE :> msg)

\* APP_HOME (apps.py 112-122): the home/launcher entry; it has no "id" key.
APP_HOME_table ==
   << \* SmartCast Home
      [ name |-> <<"S", "m", "a", "r", "t", "C", "a", "s", "t", " ", "H", "o", "m", "e">>,
        country |-> <<"*">>,
        config |-> Config(PyInt(4), PyStr("1"),
                          PyStr("http://127.0.0.1:12345/scfs/sctv/main.html")) ] >>

\* APPS (apps.py 124-337): the other known apps, in table order.
APPS_table ==
   << \* Prime Video
      [ name |-> <<"P", "r", "i", "m", "e", " ", "V", "i", "d", "e", "o">>,
        country |-> <<"*">>,
        id |-> "33",
        config |-> Config(PyInt(2), PyStr("4"),
                          None) ],
      \* CBS All Access
      [ name |-> <<"C", "B", "S", " ", "A", "l", "l", " ", "A", "c", "c", "e", "s", "s">>,
        country |-> <<"usa">>,
        id |-> "9",
        config |-> Config(PyInt(2), PyStr("37"),
                          None) ],
      \* CBS News
      [ name |-> <<"C", "B", "S", " ", "N", "e", "w", "s">>,
        country |-> <<"usa", "can">>,
        id |-> "56",
        config |-> Config(PyInt(2), PyStr("42"),
                          None) ],
      \* Crackle
      [ name |-> <<"C", "r", "a", "c", "k", "l", "e">>,
        country |-> <<"usa">>,
        id |-> "8",
        config |-> Config(PyInt(2), PyStr("5"),
                          None) ],
      \* Curiosity Stream
      [ name |-> <<"C", "u", "r", "i", "o", "s", "i", "t", "y", " ", "S", "t", "r", "e", "a", "m">>,
        country |-> <<"usa", "can">>,
        id |-> "37",
        config |-> Config(PyInt(2), PyStr("12"),
                          None) ],
      \* Fandango Now
      [ name |-> <<"F", "a", "n", "d", "a", "n", "g", "o", " ", "N", "o", "w">>,
        country |-> <<"usa">>,
        id |-> "24",
        config |-> Config(PyInt(2), PyStr("7"),
                          None) ],
      \* FilmRise
      [ name |-> <<"F", "i", "l", "m", "R", "i", "s", "e">>,
        country |-> <<"usa">>,
        id |-> "47",
        config |-> Config(PyInt(2), PyStr("24"),
                          None) ],
      \* Flixfling
      [ name |-> <<"F", "l", "i", "x", "f", "l", "i", "n", "g">>,
        country |-> <<"*">>,
        id |-> "49",
        config |-> Config(PyInt(2), PyStr("36"),
                          None) ],
      \* Haystack TV
      [ name |-> <<"H", "a", "y", "s", "t", "a", "c", "k", " ", "T", "V">>,
        country |-> <<"usa", "can">>,
        id |-> "35",
        config |-> Config(PyInt(0), PyStr("898AF734"),
                          PyStr("{\"CAST_NAMESPACE\":\"urn:x-cast:com.google.cast.media\",\"CAST_MESSAGE\":{\"type\":\"LOAD\",\"media\":{},\"autoplay\":true,\"currentTime\":0,\"customData\":{\"platform\":\"sctv\"}}}")) ],
      \* Hulu
      [ name |-> <<"H", "u", "l", "u">>,
        country |-> <<"usa">>,
        id |-> "19",
        config |-> Config(PyInt(2), PyStr("3"),
                          None) ],
      \* iHeartRadio
      [ name |-> <<"i", "H", "e", "a", "r", "t", "R", "a", "d", "i", "o">>,
        country |-> <<"usa">>,
        id |-> "11",
        config |-> Config(PyInt(2), PyStr("6"),
                          None) ],
      \* NBC
      [ name |-> <<"N", "B", "C">>,
        country |-> <<"usa">>,
        id |-> "43",
        config |-> Config(PyInt(2), PyStr("10"),
                          None) ],
      \* Netflix
      [ name |-> <<"N", "e", "t", "f", "l", "i", "x">>,
        country |-> <<"*">>,
        id |-> "34",
        config |-> Config(PyInt(3), PyStr("1"),
                          None) ],
      \* Plex
      [ name |-> <<"P", "l", "e", "x">>,
        country |-> <<"usa", "can">>,
        id |-> "40",
        config |-> Config(PyInt(2), PyStr("9"),
                          None) ],
      \* Pluto TV
      [ name |-> <<"P", "l", "u", "t", "o", " ", "T", "V">>,
        country |-> <<"usa">>,
        id |-> "12",
        config |-> Config(PyInt(0), PyStr("E6F74C01"),
                          PyStr("{\"CAST_NAMESPACE\":\"urn:x-cast:tv.pluto\",\"CAST_MESSAGE\":{\"command\":\"initializePlayback\",\"channel\":\"\",\"episode\":\"\",\"time\":0}}")) ],
      \* RedBox
      [ name |-> <<"R", "e", "d", "B", "o", "x">>,
        country |-> <<"usa">>,
        id |-> "55",
        config |-> Config(PyInt(2), PyStr("41"),
                          None) ],
      \* TasteIt
      [ name |-> <<"T", "a", "s", "t", "e", "I", "t">>,
        country |-> <<"*">>,
        id |-> "52",
        config |-> Config(PyInt(2), PyStr("26"),
                          None) ],
      \* Toon Goggles
      [ name |-> <<"T", "o", "o", "n", " ", "G", "o", "g", "g", "l", "e", "s">>,
        country |-> <<"usa", "can">>,
        id |-> "46",
        config |-> Config(PyInt(2), PyStr("21"),
                          None) ],
      \* Vudu
      [ name |-> <<"V", "u", "d", "u">>,
        country |-> <<"usa">>,
        id |-> "6",
        config |-> Config(PyInt(2), PyStr("21"),
                          PyStr("https://my.vudu.com/castReceiver/index.html?launch-source=app-icon")) ],
      \* XUMO
      [ name |-> <<"X", "U", "M", "O">>,
        country |-> <<"usa">>,
        id |-> "27",
        config |-> Config(PyInt(0), PyStr("36E1EA1F"),
                          PyStr("{\"CAST_NAMESPACE\":\"urn:x-cast:com.google.cast.media\",\"CAST_MESSAGE\":{\"type\":\"LOAD\",\"media\":{},\"autoplay\":true,\"currentTime\":0,\"customData\":{}}}")) ],
      \* YouTubeTV
      [ name |-> <<"Y", "o", "u", "T", "u", "b", "e", "T", "V">>,
        country |-> <<"usa", "mexico">>,
        id |-> "45",
        config |-> Config(PyInt(5), PyStr("3"),
                          None) ],
      \* YouTube
      [ name |-> <<"Y", "o", "u", "T", "u", "b", "e">>,
        country |-> <<"*">>,
        id |-> "44",
        config |-> Config(PyInt(5), PyStr("1"),
                          None) ],
      \* Baeble
      [ name |-> <<"B", "a", "e", "b", "l", "e">>,
        country |-> <<"usa">>,
        id |-> "39",
        config |-> Config(PyInt(2), PyStr("11"),
                          None) ],
      \* DAZN
      [ name |-> <<"D", "A", "Z", "N">>,
        country |-> <<"usa", "can">>,
        id |-> "57",
        config |-> Config(PyInt(2), PyStr("34"),
                          None) ],
      \* FitFusion by Jillian Michaels
      [ name |-> <<"F", "i", "t", "F", "u", "s", "i", "o", "n", " ", "b", "y", " ", "J", "i", "l", "l", "i", "a", "n", " ", "M", "i", "c", "h", "a", "e", "l", "s">>,
        country |-> <<"usa", "can">>,
        id |-> "54",
        config |-> Config(PyInt(2), PyStr("39"),
                          None) ],
      \* Newsy
      [ name |-> <<"N", "e", "w", "s", "y">>,
        country |-> <<"usa", "can">>,
        id |-> "38",
        config |-> Config(PyInt(2), PyStr("15"),
                          None) ],
      \* Cocoro TV
      [ name |-> <<"C", "o", "c", "o", "r", "o", " ", "T", "V">>,
        country |-> <<"usa", "can">>,
        id |-> "63",
        config |-> Config(PyInt(2), PyStr("55"),
                          None) ],
      \* ConTV
      [ name |-> <<"C", "o", "n", "T", "V">>,
        country |-> <<"usa", "can">>,
        id |-> "41",
        config |-> Config(PyInt(2), PyStr("18"),
                          None) ],
      \* Dove Channel
      [ name |-> <<"D", "o", "v", "e", " ", "C", "h", "a", "n", "n", "e", "l">>,
        country |-> <<"usa", "can">>,
        id |-> "42",
        config |-> Config(PyInt(2), PyStr("16"),
                          None) ],
      \* Love Destination
      [ name |-> <<"L", "o", "v", "e", " ", "D", "e", "s", "t", "i", "n", "a", "t", "i", "o", "n">>,
        country |-> <<"*">>,
        id |-> "64",
        config |-> Config(PyInt(2), PyStr("57"),
                          None) ],
      \* WatchFree
      [ name |-> <<"W", "a", "t", "c", "h", "F", "r", "e", "e">>,
        country |-> <<"usa">>,
        id |-> "48",
        config |-> Config(PyInt(2), PyStr("22"),
                          None) ],
      \* AsianCrush
      [ name |-> <<"A", "s", "i", "a", "n", "C", "r", "u", "s", "h">>,
        country |-> <<"usa", "can">>,
        id |-> "50",
        config |-> Config(PyInt(2), PyStr("27"),
                          PyStr("https://html5.asiancrush.com/?ua=viziosmartcast")) ] >>

----------------------------------------------------------------------------
\* Calling a Python function with the keyword arguments kw.

\* The call binds: every required parameter is supplied, no keyword is unexpected.
Binds(kw, required, optional) ==
    /\ required \subseteq DOMAIN kw
    /\ DOMAIN kw \subseteq (required \cup optional)

Argument(kw, p, default) == IF p \in DOMAIN kw THEN kw[p] ELSE default

\* dict.get(key, default)
dict_get(d, key, default) == IF key \in DOMAIN d THEN d[key] ELSE default

----------------------------------------------------------------------------
\* class AppConfig

\* AppConfig.__init__(self, APP_ID=None, NAME_SPACE=None, MESSAGE=None), called
\* as AppConfig(**kw); oid is the identity of the object created.
AppConfig_init(oid, kw) ==
    IF Binds(kw, {}, {K_APP_ID, K_NAME_SPACE, K_MESSAGE})
    THEN Return([ oid        |-> oid,
                  APP_ID     |-> Argument(kw, K_APP_ID, None),
                  NAME_SPACE |-> Argument(kw, K_NAME_SPACE, None),
                  MESSAGE    |-> Argument(kw, K_MESSAGE, None) ])
    ELSE Raise("TypeError")

\* self.__dict__
AppConfig_dict(self) ==
    [APP_ID |-> self.APP_ID, NAME_SPACE |-> self.NAME_SPACE, MESSAGE |-> self.MESSAGE]

\* The object-identity comparison Python uses when a class defines no __eq__.
AppConfig_eq_identity(self, other) == self.oid = other.oid

\* AppConfig.__eq__: self is other or self.__dict__ == other.__dict__
AppConfig_eq(self, other) ==
    self.oid = other.oid \/ AppConfig_dict(self) = AppConfig_dict(other)

\* a != b: Python derives it from __eq__ when no __ne__ is defined.
AppConfig_ne(self, other) == ~AppConfig_eq(self, other)

----------------------------------------------------------------------------
\* class LaunchAppConfigCommand

\* __init__(self, device_type, APP_ID, NAME_SPACE, MESSAGE=None), with the
\* arguments after device_type given as kw.  Argument binding precedes the body;
\* the body first looks up ENDPOINT[device_type]["LAUNCH_APP"].
LaunchAppConfigCommand_init(device_type, kw) ==
    IF ~Binds(kw, {K_APP_ID, K_NAME_SPACE}, {K_MESSAGE})
    THEN Raise("TypeError")
    ELSE IF device_type \notin DOMAIN ENDPOINT
    THEN Raise("KeyError")
    ELSE IF "LAUNCH_APP" \notin DOMAIN ENDPOINT[device_type]
    THEN Raise("KeyError")
    ELSE Return([ url   |-> ENDPOINT[device_type].LAUNCH_APP,
                  VALUE |-> AppConfig_init(1, kw).value ])

----------------------------------------------------------------------------
\* class LaunchAppNameCommand

\* A lookup that compares the names as they are written.
RECURSIVE next_by_name_exact(_, _)
next_by_name_exact(app_defs, app_name) ==
    IF Len(app_defs) = 0
    THEN EmptyDict
    ELSE IF Head(app_defs).name = app_name
    THEN Head(app_defs)
    ELSE next_by_name_exact(Tail(app_defs), app_name)

\* next((app_def for app_def in app_defs
\*       if app_def["name"].lower() == app_name.lower()), dict())
RECURSIVE next_by_name(_, _)
next_by_name(app_defs, app_name) ==
    IF Len(app_defs) = 0
    THEN EmptyDict
    ELSE IF lower(Head(app_defs).name) = lower(app_name)
    THEN Head(app_defs)
    ELSE next_by_name(Tail(app_defs), app_name)

\* __init__(self, device_type, app_name)
LaunchAppNameCommand_init(device_type, app_name) ==
    LET app_def == next_by_name(APP_HOME \o APPS, app_name)
    IN  LaunchAppConfigCommand_init(device_type, dict_get(app_def, "config", EmptyDict))

----------------------------------------------------------------------------
\* class GetCurrentAppConfigCommand

\* pyvizio.helpers.dict_get_case_insensitive(in_dict, key, default_return):
\* the value of the key of in_dict that equals `key` ignoring case, or
\* default_return when there is none.
dict_get_case_insensitive(in_dict, key, default_return) ==
    IF \E k \in DOMAIN in_dict.d : lower(k) = lower(key)
    THEN in_dict.d[CHOOSE k \in DOMAIN in_dict.d : lower(k) = lower(key)]
    ELSE default_return

\* AppConfig(**current_app_id): ** needs a mapping.
AppConfig_unpack(oid, v) ==
    IF v.type = "dict" THEN AppConfig_init(oid, v.d) ELSE Raise("TypeError")

\* A process_response without the `if current_app_id:` test.
process_response_unguarded(json_obj) ==
    LET item == dict_get_case_insensitive(json_obj, ITEM, PyDict(EmptyDict))
        current_app_id == dict_get_case_insensitive(item, VALUE, None)
    IN  AppConfig_unpack(1, current_app_id)

\* process_response(self, json_obj)
GetCurrentAppConfigCommand_process_response(json_obj) ==
    LET item == dict_get_case_insensitive(json_obj, ITEM, PyDict(EmptyDict))
        current_app_id == dict_get_case_insensitive(item, VALUE, None)
    IN  IF Truthy(current_app_id)
        THEN AppConfig_unpack(1, current_app_id)
        ELSE AppConfig_init(1, EmptyDict)

----------------------------------------------------------------------------
\* class GetCurrentAppNameCommand

\* A lookup that keeps the last entry with the pair instead of the first.
RECURSIVE last_by_config(_, _)
last_by_config(app_defs, current_app_config) ==
    IF Len(app_defs) = 0
    THEN EmptyDict
    ELSE LET later == last_by_config(Tail(app_defs), current_app_config)
         IN  IF DOMAIN later # {}
             THEN later
             ELSE IF /\ Head(app_defs).config[K_APP_ID] = current_app_config.APP_ID
                     /\ Head(app_defs).config[K_NAME_SPACE] = current_app_config.NAME_SPACE
             THEN Head(app_defs)
             ELSE EmptyDict

\* A lookup on APP_ID alone.
RECURSIVE next_by_app_id(_, _)
next_by_app_id(app_defs, current_app_config) ==
    IF Len(app_defs) = 0
    THEN EmptyDict
    ELSE IF Head(app_defs).config[K_APP_ID] = current_app_config.APP_ID
    THEN Head(app_defs)
    ELSE next_by_app_id(Tail(app_defs), current_app_config)

\* next((app_def for app_def in app_defs
\*       if app_def["config"]["APP_ID"] == current_app_config.APP_ID
\*       and app_def["config"]["NAME_SPACE"] == current_app_config.NAME_SPACE), dict())
RECURSIVE next_by_config(_, _)
next_by_config(app_defs, current_app_config) ==
    IF Len(app_defs) = 0
    THEN EmptyDict
    ELSE IF /\ Head(app_defs).config[K_APP_ID] = current_app_config.APP_ID
            /\ Head(app_defs).config[K_NAME_SPACE] = current_app_config.NAME_SPACE
    THEN Head(app_defs)
    ELSE next_by_config(Tail(app_defs), current_app_config)

\* process_response(self, json_obj); an exception of the inherited
\* process_response propagates.
GetCurrentAppNameCommand_process_response(json_obj) ==
    LET parsed == GetCurrentAppConfigCommand_process_response(json_obj)
    IN  IF parsed.kind = "raise"
        THEN parsed
        ELSE LET current_app_config == parsed.value
             IN  IF AppConfig_ne(current_app_config, AppConfig_init(2, EmptyDict).value)
                 THEN LET app_def == next_by_config(APP_HOME \o APPS, current_app_config)
                      IN  Return(dict_get(app_def, "name", UNKNOWN_APP))
                 ELSE Return(NO_APP_RUNNING)

----------------------------------------------------------------------------
\* The arguments callers and devices supply.

Catalog == APP_HOME_table \o APPS_table

CatalogNames == {Catalog[i].name : i \in DOMAIN Catalog}

flip_char(c) == IF IsIn(UpperCase, c) THEN lower_char(c) ELSE upper_char(c)

RECURSIVE Flips(_, _)
Flips(s, k) ==
    IF k = 0
    THEN {s}
    ELSE LET fewer == Flips(s, k - 1)
         IN  fewer \cup {[t EXCEPT ![i] = flip_char(t[i])] : t \in fewer, i \in DOMAIN s}

CaseVariants(s) == Flips(s, MaxFlips) \cup {lower(s), upper(s)}

\* "nonexistent-app", "", "Netfli", "YouTubeT", "Net flix"
UnknownNames ==
    { <<"n", "o", "n", "e", "x", "i", "s", "t", "e", "n", "t", "-", "a", "p", "p">>,
      <<>>,
      <<"N", "e", "t", "f", "l", "i">>,
      <<"Y", "o", "u", "T", "u", "b", "e", "T">>,
      <<"N", "e", "t", " ", "f", "l", "i", "x">> }

AppNames == UNION {CaseVariants(n) : n \in CatalogNames} \cup UnknownNames

DeviceTypes == DOMAIN ENDPOINT

AppIds == {Catalog[i].config[K_APP_ID] : i \in DOMAIN Catalog} \cup {PyStr("999")}

NameSpaces == {PyInt(n) : n \in 0 .. MaxNameSpace}

Messages ==
    {Catalog[i].config[K_MESSAGE] : i \in DOMAIN Catalog} \cup {PyStr("launch")}

\* {"APP_ID": id, "NAME_SPACE": ns} with or without a "MESSAGE".
AppConfigDicts ==
    LET pair(id, ns) == (K_APP_ID :> id) @@ (K_NAME_SPACE :> ns)
    IN  {pair(id, ns) : id \in AppIds, ns \in NameSpaces}
        \cup {pair(id, ns) @@ (K_MESSAGE :> m) : id \in AppIds, ns \in NameSpaces, m \in Messages}

K_EXTRA == <<"E", "X", "T", "R", "A">>

\* Objects with any subset of the three fields, each key upper or lower case,
\* with or without a key that is none of them.
PartialDicts ==
    LET field(k, v) == {EmptyDict, (k :> v), (lower(k) :> v)}
    IN  { a @@ b @@ c @@ e : a \in field(K_APP_ID, PyStr("1")),
                             b \in field(K_NAME_SPACE, PyInt(3)),
                             c \in field(K_MESSAGE, PyStr("launch")),
                             e \in {EmptyDict, (K_EXTRA :> PyInt(1))} }

\* What a response carries under ITEM.VALUE.
Values ==
    {None, PyStr(""), PyStr("x"), PyInt(0), PyInt(7)}
        \cup {PyDict(d) : d \in AppConfigDicts \cup PartialDicts}

\* "ITEM", "item" and the differently spelled "ITEMS".
ItemKeys == {ITEM, lower(ITEM), ITEM \o <<"S">>}

ValueKeys == {VALUE, lower(VALUE)}

Responses ==
    {PyDict(EmptyDict)}
        \cup {PyDict(ik :> PyDict(EmptyDict)) : ik \in ItemKeys}
        \cup {PyDict(ik :> PyDict(vk :> v)) : ik \in ItemKeys, vk \in ValueKeys, v \in Values}

\* The response of a device whose current app is the payload of a launch
\* command it accepted.
DeviceReport(config) ==
    PyDict(ITEM :> PyDict(VALUE :> PyDict(Config(config.NAME_SPACE, config.APP_ID,
                                                 config.MESSAGE))))

\* The smaller argument sets of the specification that keeps a history.
FrameNames == CatalogNames \cup UnknownNames

FrameConfigDicts == {Catalog[i].config : i \in DOMAIN Catalog}

FrameResponses ==
    {PyDict(EmptyDict), PyDict(ITEM :> PyDict(VALUE :> None)),
     PyDict(ITEM :> PyDict(VALUE :> PyStr("x")))}
        \cup {PyDict(ITEM :> PyDict(VALUE :> PyDict(d))) :
                 d \in FrameConfigDicts
                        \cup {(K_APP_ID :> PyStr("999")) @@ (K_NAME_SPACE :> PyInt(0)),
                              (lower(K_APP_ID) :> PyStr("1"))}}

----------------------------------------------------------------------------
\* The state machine: the caller makes one call at a time, holds what it
\* produced, and discards it.

NoCall == [op |-> "none"]

NoResult == [kind |-> "none"]

NoMemo == [call |-> NoCall, result |-> NoResult]

Idle == call = NoCall

\* LaunchAppConfigCommand(device_type, APP_ID, NAME_SPACE[, MESSAGE])
LaunchAppConfigCommand(configs) ==
    /\ Idle
    /\ \E device_type \in DeviceTypes, kw \in configs :
          /\ call' = [op |-> "LaunchAppConfigCommand", device_type |-> device_type, kw |-> kw]
          /\ result' = LaunchAppConfigCommand_init(device_type, kw)
    /\ UNCHANGED <<APP_HOME, APPS, memo, heap>>

\* A constructor that consumes the catalog entry it finds.
LaunchAppNameCommand_pop(names) ==
    /\ Idle
    /\ \E device_type \in DeviceTypes, app_name \in names :
          /\ call' = [op |-> "LaunchAppNameCommand", device_type |-> device_type,
                      app_name |-> app_name]
          /\ result' = LaunchAppNameCommand_init(device_type, app_name)
          /\ APPS' = SelectSeq(APPS, LAMBDA app_def : lower(app_def.name) # lower(app_name))
    /\ UNCHANGED <<APP_HOME, memo, heap>>

\* LaunchAppNameCommand(device_type, app_name)
LaunchAppNameCommand(names) ==
    /\ Idle
    /\ \E device_type \in DeviceTypes, app_name \in names :
          /\ call' = [op |-> "LaunchAppNameCommand", device_type |-> device_type,
                      app_name |-> app_name]
          /\ result' = LaunchAppNameCommand_init(device_type, app_name)
    /\ UNCHANGED <<APP_HOME, APPS, memo, heap>>

\* GetCurrentAppConfigCommand(device_type).process_response(json_obj)
GetCurrentAppConfigCommand(responses) ==
    /\ Idle
    /\ \E json_obj \in responses :
          /\ call' = [op |-> "GetCurrentAppConfigCommand", json_obj |-> json_obj]
          /\ result' = GetCurrentAppConfigCommand_process_response(json_obj)
    /\ UNCHANGED <<APP_HOME, APPS, memo, heap>>

\* GetCurrentAppNameCommand(device_type).process_response(json_obj)
GetCurrentAppNameCommand(responses) ==
    /\ Idle
    /\ \E json_obj \in responses :
          /\ call' = [op |-> "GetCurrentAppNameCommand", json_obj |-> json_obj]
          /\ result' = GetCurrentAppNameCommand_process_response(json_obj)
    /\ UNCHANGED <<APP_HOME, APPS, memo, heap>>

\* The command built by LaunchAppNameCommand is sent, the device makes its
\* payload the current app, and GetCurrentAppNameCommand interprets the
\* device's report of it.
ReportLaunchedApp ==
    /\ call.op = "LaunchAppNameCommand"
    /\ result.kind = "return"
    /\ LET json_obj == DeviceReport(result.value.VALUE)
       IN  /\ call' = [op |-> "GetCurrentAppNameCommand", json_obj |-> json_obj,
                       launched |-> call.app_name]
           /\ result' = GetCurrentAppNameCommand_process_response(json_obj)
    /\ UNCHANGED <<APP_HOME, APPS, memo, heap>>

\* The caller drops the command or the result it holds.
Discard ==
    /\ ~Idle
    /\ call' = NoCall
    /\ result' = NoResult
    /\ UNCHANGED <<APP_HOME, APPS, memo, heap>>

Init ==
    /\ APP_HOME = APP_HOME_table
    /\ APPS = APPS_table
    /\ call = NoCall
    /\ result = NoResult
    /\ memo = NoMemo
    /\ heap = <<>>

Next ==
    \/ LaunchAppConfigCommand(AppConfigDicts)
    \/ LaunchAppNameCommand(AppNames)
    \/ GetCurrentAppConfigCommand(Responses)
    \/ GetCurrentAppNameCommand(Responses)
    \/ ReportLaunchedApp
    \/ Discard

Spec == Init /\ [][Next]_vars

----------------------------------------------------------------------------
\* The same calls on fewer arguments, with one earlier call and its result
\* kept for comparison with later ones.

\* The caller notes the call and what it produced as it drops the result, so
\* a noted call that is current again has been made a second time.
Remember ==
    /\ ~Idle
    /\ memo' = [call |-> call, result |-> result]
    /\ call' = NoCall
    /\ result' = NoResult
    /\ UNCHANGED <<APP_HOME, APPS, heap>>

NextFrame ==
    \/ LaunchAppConfigCommand(FrameConfigDicts)
    \/ LaunchAppNameCommand(FrameNames)
    \/ GetCurrentAppConfigCommand(FrameResponses)
    \/ GetCurrentAppNameCommand(FrameResponses)
    \/ ReportLaunchedApp
    \/ Discard
    \/ Remember

SpecFrame == Init /\ [][NextFrame]_vars

----------------------------------------------------------------------------
\* AppConfig objects held at once, compared with == and !=.

EqAppIds == {None, PyStr("1")}

EqNameSpaces == {None, PyInt(3)}

EqMessages == {None, PyStr("launch")}

\* AppConfig(APP_ID, NAME_SPACE, MESSAGE) allocates a new object.
NewAppConfig ==
    /\ Idle
    /\ Len(heap) < MaxObjs
    /\ \E id \in EqAppIds, ns \in EqNameSpaces, m \in EqMessages :
          heap' = Append(heap, AppConfig_init(Len(heap) + 1, Config(ns, id, m)).value)
    /\ UNCHANGED <<APP_HOME, APPS, call, result, memo>>

\* a == b and a != b, for two references a and b to held objects.
Compare ==
    /\ Idle
    /\ \E a \in DOMAIN heap, b \in DOMAIN heap :
          /\ call' = [op |-> "AppConfig.__eq__", self |-> a, other |-> b]
          /\ result' = Return([eq |-> AppConfig_eq(heap[a], heap[b]),
                               ne |-> AppConfig_ne(heap[a], heap[b])])
    /\ UNCHANGED <<APP_HOME, APPS, memo, heap>>

NextEq ==
    \/ NewAppConfig
    \/ Compare
    \/ Discard

SpecEq == Init /\ [][NextEq]_vars

----------------------------------------------------------------------------
\* Vocabulary of the properties.

\* (APP_HOME ++ APPS), in table order.
Table == APP_HOME \o APPS

HasLaunchEndpoint(device_type) ==
    /\ device_type \in DOMAIN ENDPOINT
    /\ "LAUNCH_APP" \in DOMAIN ENDPOINT[device_type]

NameMatches(i, app_name) == lower(Table[i].name) = lower(app_name)

PairMatches(i, id, ns) ==
    /\ Table[i].config[K_APP_ID] = id
    /\ Table[i].config[K_NAME_SPACE] = ns

\* The least index of the table with the name, ignoring case, or with the pair.
FirstByName(app_name) ==
    CHOOSE i \in DOMAIN Table :
        NameMatches(i, app_name) /\ \A j \in 1 .. (i - 1) : ~NameMatches(j, app_name)

FirstByPair(id, ns) ==
    CHOOSE i \in DOMAIN Table :
        PairMatches(i, id, ns) /\ \A j \in 1 .. (i - 1) : ~PairMatches(j, id, ns)

AllNull == [APP_ID |-> None, NAME_SPACE |-> None, MESSAGE |-> None]

Fields(config) ==
    [APP_ID |-> config.APP_ID, NAME_SPACE |-> config.NAME_SPACE, MESSAGE |-> config.MESSAGE]

\* What the response carries under ITEM.VALUE, whatever the case of those two keys.
ReportedValues(json_obj) ==
    { json_obj.d[ik].d[vk] : <<ik, vk>> \in
        { p \in UNION {{<<i, v>> : v \in DOMAIN json_obj.d[i].d} : i \in DOMAIN json_obj.d} :
            upper(p[1]) = ITEM /\ upper(p[2]) = VALUE } }

\* The response reports the object d (keys as given) as the current app.
Reports(json_obj, d) == PyDict(d) \in ReportedValues(json_obj)

Pair(id, ns) == (K_APP_ID :> id) @@ (K_NAME_SPACE :> ns)

N_Netflix == <<"N", "e", "t", "f", "l", "i", "x">>

N_Vudu == <<"V", "u", "d", "u">>

N_ToonGoggles == <<"T", "o", "o", "n", " ", "G", "o", "g", "g", "l", "e", "s">>

\* The response with every key, at every level, in upper case.
RECURSIVE UpperKeys(_)
UpperKeys(v) ==
    IF v.type = "dict"
    THEN PyDict([K \in {upper(k) : k \in DOMAIN v.d} |->
                    UpperKeys(v.d[CHOOSE k \in DOMAIN v.d : upper(k) = K])])
    ELSE v

----------------------------------------------------------------------------
\* C1.  LaunchAppNameCommand(device_type, name), for a device type with a
\* launch endpoint and a name that matches no entry of (APP_HOME ++ APPS)
\* ignoring case, succeeds and its payload is AppConfig(None, None, None).
C1_UnknownNameBuildsEmptyConfig ==
    ( /\ call.op = "LaunchAppNameCommand"
      /\ HasLaunchEndpoint(call.device_type)
      /\ \A i \in DOMAIN Table : ~NameMatches(i, call.app_name) )
    => ( /\ result.kind = "return"
         /\ Fields(result.value.VALUE) = AllNull )

\* C2.  LaunchAppNameCommand(device_type, N), for a device type with a launch
\* endpoint and N a case permutation of a catalog name, builds a request for the
\* launch endpoint whose payload has exactly the APP_ID, NAME_SPACE and MESSAGE of
\* the first entry of (APP_HOME ++ APPS) whose name equals N ignoring case;
\* for any spelling of "Netflix" that is ("1", 3, None).
C2_KnownNameBuildsEntryConfig ==
    ( /\ call.op = "LaunchAppNameCommand"
      /\ HasLaunchEndpoint(call.device_type)
      /\ \E i \in DOMAIN Table : NameMatches(i, call.app_name) )
    => ( /\ result.kind = "return"
         /\ result.value.url = ENDPOINT[call.device_type].LAUNCH_APP
         /\ LET config == Table[FirstByName(call.app_name)].config
            IN  Fields(result.value.VALUE) =
                    [ APP_ID     |-> config[K_APP_ID],
                      NAME_SPACE |-> config[K_NAME_SPACE],
                      MESSAGE    |-> config[K_MESSAGE] ]
         /\ upper(call.app_name) = upper(N_Netflix) =>
                Fields(result.value.VALUE) =
                    [APP_ID |-> PyStr("1"), NAME_SPACE |-> PyInt(3), MESSAGE |-> None] )

\* C2 happens: "NETFLIX" on the tv gives the Netflix payload.
C2_Witness ==
    /\ call.op = "LaunchAppNameCommand"
    /\ call.device_type = "tv"
    /\ call.app_name = upper(N_Netflix)
    /\ call.app_name # N_Netflix
    /\ result.kind = "return"
    /\ result.value.VALUE.APP_ID = PyStr("1")
    /\ result.value.VALUE.NAME_SPACE = PyInt(3)

\* C3.  GetCurrentAppNameCommand.process_response puts every response into
\* exactly one of three outcomes: NO_APP_RUNNING exactly when the parsed
\* AppConfig is the default one; otherwise the name of a catalog entry with the
\* same (APP_ID, NAME_SPACE) when there is one, and UNKNOWN_APP when there is
\* none.  The sentinels differ from each other and from every catalog name.
C3_ClassifiesEveryResponse ==
    call.op = "GetCurrentAppNameCommand" =>
        LET parsed == GetCurrentAppConfigCommand_process_response(call.json_obj)
        IN  /\ result.kind = "return"
            /\ parsed.kind = "return"
            /\ result.value = NO_APP_RUNNING <=> Fields(parsed.value) = AllNull
            /\ Fields(parsed.value) # AllNull =>
                  IF \E i \in DOMAIN Table :
                         PairMatches(i, parsed.value.APP_ID, parsed.value.NAME_SPACE)
                  THEN \E i \in DOMAIN Table :
                         /\ PairMatches(i, parsed.value.APP_ID, parsed.value.NAME_SPACE)
                         /\ result.value = Table[i].name
                  ELSE result.value = UNKNOWN_APP
            /\ NO_APP_RUNNING # UNKNOWN_APP
            /\ \A i \in DOMAIN Table : Table[i].name \notin {NO_APP_RUNNING, UNKNOWN_APP}

\* The classification of C3 on the responses that parse.
ClassifiesParsedResponses ==
    ( /\ call.op = "GetCurrentAppNameCommand"
      /\ GetCurrentAppConfigCommand_process_response(call.json_obj).kind = "return" )
    => C3_ClassifiesEveryResponse

\* C4.  For every catalog entry E and every MESSAGE m (or none), on a response
\* reporting (E.APP_ID, E.NAME_SPACE, m) GetCurrentAppNameCommand returns the
\* name of the first entry of (APP_HOME ++ APPS) with that pair, whatever m is;
\* for the pair ("21", 2), held by two entries, that is "Toon Goggles".
C4_ReverseLookupFirstMatch ==
    call.op = "GetCurrentAppNameCommand" =>
        \A i \in DOMAIN Table, v \in ReportedValues(call.json_obj) :
            LET id == Table[i].config[K_APP_ID]
                ns == Table[i].config[K_NAME_SPACE]
                reported == \/ v = PyDict(Pair(id, ns))
                            \/ \E m \in Messages : v = PyDict(Pair(id, ns) @@ (K_MESSAGE :> m))
            IN  reported =>
                  /\ result = Return(Table[FirstByPair(id, ns)].name)
                  /\ (id = PyStr("21") /\ ns = PyInt(2)) => result.value = N_ToonGoggles

\* C4 happens: the device reports Vudu's own config, message included.
C4_Witness ==
    /\ call.op = "GetCurrentAppNameCommand"
    /\ \E i \in DOMAIN Table :
          /\ Table[i].name = N_Vudu
          /\ Reports(call.json_obj, Table[i].config)
    /\ result = Return(N_ToonGoggles)

\* C5.  GetCurrentAppConfigCommand.process_response never raises: for every
\* response it returns an AppConfig, and every field the response does not
\* supply is None.
C5_NeverRaises ==
    call.op = "GetCurrentAppConfigCommand" =>
        /\ result.kind = "return"
        /\ \A v \in ReportedValues(call.json_obj) :
              LET supplied(K) == v.type = "dict" /\ \E k \in DOMAIN v.d : upper(k) = K
              IN  /\ ~supplied(K_APP_ID) => result.value.APP_ID = None
                  /\ ~supplied(K_NAME_SPACE) => result.value.NAME_SPACE = None
                  /\ ~supplied(K_MESSAGE) => result.value.MESSAGE = None
        /\ ReportedValues(call.json_obj) = {} => Fields(result.value) = AllNull

\* C6.  Keys are matched ignoring case at every level: the result for a
\* response is the result for the same response with ITEM, VALUE, APP_ID,
\* NAME_SPACE and MESSAGE (and every other key) written in upper case.
C6_KeysIgnoreCase ==
    call.op = "GetCurrentAppConfigCommand" =>
        result = GetCurrentAppConfigCommand_process_response(UpperKeys(call.json_obj))

\* C7.  GetCurrentAppConfigCommand.process_response: when ITEM or ITEM.VALUE is
\* missing, or ITEM.VALUE is null, "" or {}, the result is AppConfig() with its
\* three fields None; when ITEM.VALUE is an object whose keys are APP_ID,
\* NAME_SPACE and possibly MESSAGE, the result has exactly those values, and
\* None for MESSAGE when it is not there.
C7_ParseResult ==
    call.op = "GetCurrentAppConfigCommand" =>
        LET values == ReportedValues(call.json_obj)
        IN  /\ values \subseteq {None, PyStr(""), PyDict(EmptyDict)} =>
                  /\ result.kind = "return"
                  /\ Fields(result.value) = AllNull
            /\ \A v \in values :
                  ( /\ v.type = "dict"
                    /\ {K_APP_ID, K_NAME_SPACE} \subseteq DOMAIN v.d
                    /\ DOMAIN v.d \subseteq {K_APP_ID, K_NAME_SPACE, K_MESSAGE} )
                  => ( /\ result.kind = "return"
                       /\ result.value.APP_ID = v.d[K_APP_ID]
                       /\ result.value.NAME_SPACE = v.d[K_NAME_SPACE]
                       /\ result.value.MESSAGE =
                              IF K_MESSAGE \in DOMAIN v.d THEN v.d[K_MESSAGE] ELSE None )

\* C7 happens: {"item": {"value": {"APP_ID": "1", "NAME_SPACE": 3}}}.
C7_Witness ==
    /\ call.op = "GetCurrentAppConfigCommand"
    /\ call.json_obj =
          PyDict(lower(ITEM) :> PyDict(lower(VALUE) :> PyDict(Pair(PyStr("1"), PyInt(3)))))
    /\ result.kind = "return"
    /\ Fields(result.value) =
          [APP_ID |-> PyStr("1"), NAME_SPACE |-> PyInt(3), MESSAGE |-> None]

\* C8.  a == b for AppConfig objects holds exactly when their APP_ID,
\* NAME_SPACE and MESSAGE are equal, whether or not a and b are the same
\* object; == is reflexive, symmetric and transitive, and != is its negation.
C8_StructuralEquality ==
    LET same(a, b) == /\ heap[a].APP_ID = heap[b].APP_ID
                      /\ heap[a].NAME_SPACE = heap[b].NAME_SPACE
                      /\ heap[a].MESSAGE = heap[b].MESSAGE
        eq(a, b) == AppConfig_eq(heap[a], heap[b])
    IN  /\ \A a \in DOMAIN heap : eq(a, a)
        /\ \A a, b \in DOMAIN heap :
              /\ eq(a, b) <=> same(a, b)
              /\ eq(a, b) <=> eq(b, a)
              /\ AppConfig_ne(heap[a], heap[b]) <=> ~eq(a, b)
        /\ \A a, b, c \in DOMAIN heap : (eq(a, b) /\ eq(b, c)) => eq(a, c)
        /\ call.op = "AppConfig.__eq__" =>
              /\ result.value.eq <=> same(call.self, call.other)
              /\ result.value.ne <=> ~result.value.eq

\* C8 happens: two distinct objects with the same fields compare equal.
C8_Witness ==
    /\ call.op = "AppConfig.__eq__"
    /\ call.self # call.other
    /\ heap[call.self].oid # heap[call.other].oid
    /\ heap[call.self].APP_ID = PyStr("1")
    /\ result.value.eq
    /\ Len(heap) = MaxObjs

\* C9.  No call changes APP_HOME or APPS, whether it hits the catalog, misses
\* it or raises, and a call made again later, after any other calls, produces
\* what it produced before.
C9_CatalogUnchangedCallsRepeatable ==
    /\ APP_HOME = APP_HOME_table
    /\ APPS = APPS_table
    /\ (call # NoCall /\ memo.call.op = call.op /\ memo.call = call) => memo.result = result

\* C9 happens: a launch by name made after an earlier, identical one and
\* other calls in between.
C9_Witness ==
    /\ call.op = "LaunchAppNameCommand"
    /\ call.device_type = "tv"
    /\ call.app_name = N_Vudu
    /\ memo.call = call
    /\ memo.result = result
    /\ result.kind = "return"

\* C10 as stated.  For every catalog entry E: when LaunchAppNameCommand(E.name)
\* built payload C and the device reports C, GetCurrentAppNameCommand returns
\* E.name.
C10_RoundTripReturnsSameName ==
    ( /\ call.op = "GetCurrentAppNameCommand"
      /\ "launched" \in DOMAIN call
      /\ \E i \in DOMAIN Table : Table[i].name = call.launched )
    => result = Return(call.launched)

\* C10 amended.  For every catalog entry E: when LaunchAppNameCommand(E.name)
\* built payload C and the device reports C, GetCurrentAppNameCommand returns
\* the name of the first entry of (APP_HOME ++ APPS) with E's (APP_ID,
\* NAME_SPACE): E.name for every entry but "Vudu", and "Toon Goggles" for
\* "Vudu"; never a sentinel.
C10_RoundTripReturnsFirstOfPair ==
    ( /\ call.op = "GetCurrentAppNameCommand"
      /\ "launched" \in DOMAIN call
      /\ \E i \in DOMAIN Table : Table[i].name = call.launched )
    => LET E == Table[CHOOSE i \in DOMAIN Table : Table[i].name = call.launched]
       IN  /\ result.kind = "return"
           /\ result.value \notin {NO_APP_RUNNING, UNKNOWN_APP}
           /\ result.value =
                 Table[FirstByPair(E.config[K_APP_ID], E.config[K_NAME_SPACE])].name
           /\ E.name # N_Vudu => result.value = E.name
           /\ E.name = N_Vudu => result.value = N_ToonGoggles

\* C10 happens: "Vudu" is launched by name and the report of its payload is
\* read back.
C10_Witness ==
    /\ call.op = "GetCurrentAppNameCommand"
    /\ "launched" \in DOMAIN call
    /\ call.launched = N_Vudu
    /\ result = Return(N_ToonGoggles)

====
